---- MODULE Spec2Model ----
(***************************************************************************)
(* Email-to-event extraction pipeline of Calendar_Agendator, in its two    *)
(* variants: Agendator.py (continuous loop) and AgendatorActions.py        *)
(* (single run).  The state machine follows one process of either variant  *)
(* through fetch_emails, get_events_from_email, the validation loop of     *)
(* main / main_loop and create_calendar_event, over the cycles of the loop *)
(* variant, with the days that pass while it sleeps and the interruption   *)
(* that ends it.                                                           *)
(*                                                                         *)
(* Texts are sequences of tokens.  A model response text is made of        *)
(*   Fence  the three backticks                                            *)
(*   Word   the letters json                                               *)
(*   Ws     one whitespace character (space or newline)                    *)
(*   Doc(v) the text of the JSON document v                                *)
(* so that the json fence marker is <<Fence, Word>>.  JSON values are      *)
(* records tagged by t; the content of a JSON string is a sequence of      *)
(* atoms (strings), among them "<fence>" (three backticks) and "json".     *)
(***************************************************************************)
EXTENDS Integers, Sequences, FiniteSets, TLC

VARIABLES
    variant,       \* which of the two programs runs
    credentials,   \* whether EMAIL_USER and EMAIL_PASS are both set
    pc,            \* where the process is
    mailbox,       \* ids of the messages unseen on the server
    seen,          \* ids of the messages flagged \Seen
    emails,        \* fetched emails still to be processed in this cycle
    attempt,       \* loop index of get_events_from_email
    trace,         \* requests and sleeps made for the current email
    response,      \* what the inference service answered to the last request
    raw_response,  \* the local variable of get_events_from_email
    parses,        \* calls of json.loads for the current email
    ret,           \* outcome of get_events_from_email for the current email
    events,        \* the elements the orchestrator iterates over
    idx,           \* index of the next element of events
    calls,         \* calls of create_calendar_event for the current email
    warnings,      \* candidates logged as malformed for the current email
    attempted,     \* whether the last fetch_emails opened a connection
    import_date,   \* day on which the module was loaded (index in DateStr)
    today,         \* current day (index in DateStr)
    prompt,        \* prompt built for the current email
    handed,        \* per message: handed to extraction now, before, twice, no
    fetches,       \* calls of fetch_emails in the current cycle
    slept          \* units slept by main_loop since the last fetch_emails

vars == <<variant, credentials, slept, fetches, handed, prompt, today, import_date,
          attempted, pc, mailbox, seen, emails, attempt, trace, response, raw_response,
          parses, ret, events, idx, calls, warnings>>

\* ---------------------------------------------------------------- bounds
MaxTextLen == 4
MaxPipelineTextLen == 1
MaxEmails == 2
MaxDay == 2

\* ------------------------------------------------------- program constants
max_retries == 2
RETRY_DELAY == 5
POLL_DELAY == 60

Variants == {"Agendator", "AgendatorActions"}

\* ------------------------------------------------------------ JSON values
Null == [t |-> "null"]
Num(n) == [t |-> "num", n |-> n]
Str(s) == [t |-> "str", s |-> s]
List(items) == [t |-> "list", items |-> items]
Obj(f) == [t |-> "obj", f |-> f]
EmptyList == List(<< >>)

\* ------------------------------------------------------- ISO-8601 instants
DateStr == <<"2025-03-01", "2025-03-02", "2025-03-03">>
TimeStr == <<"00:00:00", "01:00:00", "02:00:00", "03:00:00", "04:00:00", "05:00:00",
             "06:00:00", "07:00:00", "08:00:00", "09:00:00", "10:00:00", "11:00:00",
             "12:00:00", "13:00:00", "14:00:00", "15:00:00", "16:00:00", "17:00:00",
             "18:00:00", "19:00:00", "20:00:00", "21:00:00", "22:00:00", "23:00:00">>
OffsetStr == <<"-03:00", "+00:00">>
OffsetHours == <<-3, 0>>

IndexOf(tab, a) == CHOOSE i \in 1..Len(tab) : tab[i] = a
InTable(tab, a) == \E i \in 1..Len(tab) : tab[i] = a

\* datetime.fromisoformat on the atoms of a string: a date, a date and a time,
\* or a date, a time and a UTC offset; anything else is a ValueError.
IsIsoFormat(s) ==
    /\ Len(s) \in {1, 3, 4}
    /\ InTable(DateStr, s[1])
    /\ Len(s) >= 3 => (s[2] = "T" /\ InTable(TimeStr, s[3]))
    /\ Len(s) = 4 => InTable(OffsetStr, s[4])

fromisoformat(s) ==
    [day |-> IndexOf(DateStr, s[1]),
     hour |-> IF Len(s) >= 3 THEN IndexOf(TimeStr, s[3]) - 1 ELSE 0,
     aware |-> Len(s) = 4,
     off |-> IF Len(s) = 4 THEN OffsetHours[IndexOf(OffsetStr, s[4])] ELSE 0]

\* start_time + timedelta(hours=1): the wall clock moves, tzinfo is kept
PlusHours(dt, h) ==
    [dt EXCEPT !.hour = (dt.hour + h) % 24,
               !.day = dt.day + ((dt.hour + h) \div 24)]

\* datetime.isoformat: always date, T and time, the offset when aware
isoformat(dt) ==
    <<DateStr[dt.day], "T", TimeStr[dt.hour + 1]>>
        \o (IF dt.aware THEN <<OffsetStr[IndexOf(OffsetHours, dt.off)]>> ELSE << >>)

\* ----------------------------------------------------------- text tokens
Fence == [k |-> "fence"]
Word == [k |-> "word"]
Ws == [k |-> "ws"]
Doc(v) == [k |-> "doc", v |-> v]

\* str.strip: drop the leading and the trailing whitespace
RECURSIVE LStrip(_)
LStrip(s) == IF s # << >> /\ s[1] = Ws THEN LStrip(Tail(s)) ELSE s
RECURSIVE RStrip(_)
RStrip(s) ==
    IF s # << >> /\ s[Len(s)] = Ws THEN RStrip(SubSeq(s, 1, Len(s) - 1)) ELSE s
strip(s) == RStrip(LStrip(s))

\* str.startswith(fence + json) and str.endswith(fence)
StartsWithFenceJson(s) == Len(s) >= 2 /\ s[1] = Fence /\ s[2] = Word
EndsWithFence(s) == s # << >> /\ s[Len(s)] = Fence

\* str.replace(old, ''), one pass from the left, on the atoms of a JSON string
RECURSIVE ReplaceFenceJsonAtoms(_)
ReplaceFenceJsonAtoms(s) ==
    IF s = << >> THEN << >>
    ELSE IF Len(s) >= 2 /\ s[1] = "<fence>" /\ s[2] = "json"
         THEN ReplaceFenceJsonAtoms(SubSeq(s, 3, Len(s)))
         ELSE <<s[1]>> \o ReplaceFenceJsonAtoms(Tail(s))
ReplaceFenceAtoms(s) == SelectSeq(s, LAMBDA a : a # "<fence>")

\* the two replaces as they act on the text of a JSON document: only the
\* content of its strings can hold a backtick
RECURSIVE ReplaceInValue(_)
ReplaceInValue(v) ==
    CASE v.t = "str" -> Str(ReplaceFenceAtoms(ReplaceFenceJsonAtoms(v.s)))
      [] v.t = "list" -> List([i \in 1..Len(v.items) |-> ReplaceInValue(v.items[i])])
      [] v.t = "obj" ->
            IF DOMAIN v.f = {} THEN v
            ELSE Obj([key \in DOMAIN v.f |-> ReplaceInValue(v.f[key])])
      [] OTHER -> v

\* the two replaces on the tokens of a response text
RECURSIVE ReplaceFenceJson(_)
ReplaceFenceJson(s) ==
    IF s = << >> THEN << >>
    ELSE IF StartsWithFenceJson(s) THEN ReplaceFenceJson(SubSeq(s, 3, Len(s)))
         ELSE <<s[1]>> \o ReplaceFenceJson(Tail(s))
ReplaceFence(s) == SelectSeq(s, LAMBDA tok : tok # Fence)
ReplaceInDocs(s) ==
    [i \in 1..Len(s) |-> IF s[i].k = "doc" THEN Doc(ReplaceInValue(s[i].v)) ELSE s[i]]

\* AgendatorActions.py: strip, cut one leading json fence, cut one trailing fence, strip
CleanActions(raw) ==
    LET s1 == strip(raw)
        s2 == IF StartsWithFenceJson(s1) THEN SubSeq(s1, 3, Len(s1)) ELSE s1
        s3 == IF EndsWithFence(s2) THEN SubSeq(s2, 1, Len(s2) - 1) ELSE s2
    IN strip(s3)

\* Agendator.py: strip, then delete every json fence and every fence
CleanAgendator(raw) == ReplaceFence(ReplaceFenceJson(ReplaceInDocs(strip(raw))))

clean_json_str(v, raw) ==
    IF v = "AgendatorActions" THEN CleanActions(raw) ELSE CleanAgendator(raw)

\* json.loads: one document with optional whitespace around it
JsonValid(s) == Len(strip(s)) = 1 /\ strip(s)[1].k = "doc"
json_loads(s) == strip(s)[1].v

\* ------------------------------------------------- the inputs of the model
DT1 == <<"2025-03-01", "T", "09:00:00", "-03:00">>
DT2 == <<"2025-03-02", "T", "23:00:00", "+00:00">>
DT3 == <<"2025-03-01", "T", "10:00:00">>

candY == Obj([start_datetime |-> Str(DT1), summary |-> Str(<<"Y">>)])
candX == Obj([summary |-> Str(<<"X">>)])
candNoSummary == Obj([start_datetime |-> Str(DT3)])
candNullStart == Obj([start_datetime |-> Null, summary |-> Str(<<"Z">>)])
candFence == Obj([start_datetime |-> Str(DT2), summary |-> Str(<<"a", "<fence>", "b">>)])
candNaive == Obj([start_datetime |-> Str(DT3), summary |-> Str(<<"N">>)])
candBadTime == Obj([start_datetime |-> Str(<<"t">>), summary |-> Str(<<"B">>)])
candNum == Num(7)

EventLists ==
    { << >>, <<candX, candNoSummary, candY>>, <<candNullStart, candNum, candY>>,
      <<candBadTime, candFence, candNaive>> }

Docs ==
    {Obj([eventos |-> List(l)]) : l \in EventLists}
        \cup { Obj(<< >>), Obj([eventos |-> Null]), Obj([eventos |-> Str(<<"abc">>)]),
               Obj([eventos |-> Num(5)]), Obj([eventos |-> Obj([summary |-> Num(1)])]),
               List(<<candY>>) }

\* response texts: up to n tokens, at most one of them a document
Symbols == {"F", "j", "w", "D"}
Patterns(n) ==
    {p \in UNION {[1..m -> Symbols] : m \in 0..n} :
        Cardinality({i \in 1..Len(p) : p[i] = "D"}) <= 1}
Token(sym, d) ==
    CASE sym = "F" -> Fence [] sym = "j" -> Word [] sym = "w" -> Ws [] OTHER -> Doc(d)
TextOf(p, d) == [i \in 1..Len(p) |-> Token(p[i], d)]
Texts(n) == {TextOf(p, d) : p \in Patterns(n), d \in Docs}

\* what one requests.post and the reading of its envelope can come to
FailureKinds == {"transport", "http", "nokey", "noitem", "nulls", "textnull"}
NoResponse == [kind |-> "none", text |-> << >>]
Outcomes(n) ==
    {[kind |-> f, text |-> << >>] : f \in FailureKinds}
        \cup {[kind |-> "ok", text |-> x] : x \in Texts(n)}
ExtractOutcomes == Outcomes(MaxTextLen)
PipelineOutcomes == Outcomes(MaxPipelineTextLen)

\* ------------------------------------------------------------ the prompt
\* GEMINI_PROMPT_TEMPLATE, built once when the module is loaded: the
\* instructions, the JSON example in doubled braces, the date of that moment
\* and the four replacement fields.  Braces are atoms of their own.
TemplateWithSingleBraces(date) ==
    << "Abaixo esta o conteudo de um e-mail ... lista vazia: ",
       "{", "\"eventos\": []", "}", ". ",
       "Considere a data de hoje como: ", date, ". Segue o e-mail:",
       "De: ", "{", "de", "}", "Para: ", "{", "para", "}",
       "Assunto: ", "{", "assunto", "}", "Conteudo:", "{", "conteudo", "}" >>

GEMINI_PROMPT_TEMPLATE(date) ==
    << "Abaixo esta o conteudo de um e-mail ... lista vazia: ",
       "{", "{", "\"eventos\": []", "}", "}", ". ",
       "Considere a data de hoje como: ", date, ". Segue o e-mail:",
       "De: ", "{", "de", "}", "Para: ", "{", "para", "}",
       "Assunto: ", "{", "assunto", "}", "Conteudo:", "{", "conteudo", "}" >>

FormatError == "<error>"

\* str.format: one pass over the template; a doubled brace gives one brace, a
\* brace pair around a name gives the argument of that name, and what is
\* put in is not looked at again.  A lone brace or an unknown name raises.
RECURSIVE format(_, _)
format(t, kwargs) ==
    IF t = << >> THEN << >>
    ELSE IF t[1] = "{"
         THEN IF Len(t) >= 2 /\ t[2] = "{"
              THEN <<"{">> \o format(SubSeq(t, 3, Len(t)), kwargs)
              ELSE IF Len(t) >= 3 /\ t[3] = "}" /\ t[2] \in DOMAIN kwargs
                   THEN kwargs[t[2]] \o format(SubSeq(t, 4, Len(t)), kwargs)
                   ELSE <<FormatError>>
         ELSE IF t[1] = "}"
              THEN IF Len(t) >= 2 /\ t[2] = "}"
                   THEN <<"}">> \o format(SubSeq(t, 3, Len(t)), kwargs)
                   ELSE <<FormatError>>
              ELSE <<t[1]>> \o format(Tail(t), kwargs)

\* str() of a header value or a body: None for a header that is not there
PyStr(v) == IF v.t = "null" THEN <<"None">> ELSE v.s

\* the emails fetch_emails can hand over, by message id
EmailTable ==
    << [from |-> Str(<<"ana@x.org">>), to |-> Str(<<"bob@x.org">>),
        subject |-> Str(<<"Reuniao ", "{", "de", "}">>),
        body |-> Str(<<"{", "conteudo", "}", " amanha ", "{", "{", "}">>)],
       [from |-> Null, to |-> Str(<<"bob@x.org">>),
        subject |-> Str(<< >>), body |-> Str(<< >>)],
       [from |-> Str(<<"}", "eva">>), to |-> Str(<<"{para}">>),
        subject |-> Str(<<"Entrega">>), body |-> Str(<<"sexta 10h">>)] >>
EmailData(m) == EmailTable[((m - 1) % Len(EmailTable)) + 1]

\* the first statement of get_events_from_email
BuildPrompt(date, email_data) ==
    format(GEMINI_PROMPT_TEMPLATE(DateStr[date]),
           [de |-> PyStr(email_data.from), para |-> PyStr(email_data.to),
            assunto |-> PyStr(email_data.subject), conteudo |-> PyStr(email_data.body)])

\* --------------------------------------------------- get_events_from_email
Unbound == [bound |-> FALSE, none |-> FALSE, val |-> << >>]
Bound(x) == [bound |-> TRUE, none |-> FALSE, val |-> x]
BoundNone == [bound |-> TRUE, none |-> TRUE, val |-> << >>]

NotReturned == [st |-> "none", v |-> EmptyList, exc |-> "none"]
Return(v) == [st |-> "ret", v |-> v, exc |-> "none"]
Raise(e) == [st |-> "raise", v |-> EmptyList, exc |-> e]

\* event_data.get("eventos", [])
GetEventos(event_data) ==
    IF "eventos" \in DOMAIN event_data.f THEN event_data.f.eventos ELSE EmptyList

ParseResponseUncaught(v, raw) ==
    LET clean == clean_json_str(v, raw)
    IN IF clean = << >> THEN [ret |-> Return(EmptyList), parsed |-> FALSE]
       ELSE IF ~JsonValid(clean)
            THEN [ret |-> Raise("JSONDecodeError"), parsed |-> TRUE]
            ELSE IF json_loads(clean).t = "obj"
                 THEN [ret |-> Return(GetEventos(json_loads(clean))), parsed |-> TRUE]
                 ELSE [ret |-> Raise("AttributeError"), parsed |-> TRUE]

\* the statements between the reading of the text and the return
\* (AgendatorActions.py 149-161, Agendator.py 152-160): [ret, parsed]
ParseResponse(v, raw) ==
    LET clean == clean_json_str(v, raw)
    IN IF clean = << >> THEN [ret |-> Return(EmptyList), parsed |-> FALSE]
       ELSE IF ~JsonValid(clean)
            THEN [ret |-> Return(EmptyList), parsed |-> TRUE]   \* JSONDecodeError
            ELSE IF json_loads(clean).t = "obj"
                 THEN [ret |-> Return(GetEventos(json_loads(clean))), parsed |-> TRUE]
                 ELSE [ret |-> Raise("AttributeError"), parsed |-> TRUE]

\* the except clause for KeyError and IndexError formats raw_response
EnvelopeErrorHandler(raw) ==
    IF raw.bound THEN Return(EmptyList) ELSE Raise("UnboundLocalError")

\* whether the except clause of AgendatorActions.py sleeps after a
\* RequestException on attempt a (0-based) rather than return
RetryAfterEveryAttempt(a) == a < max_retries
RetryAfter(a) == a < max_retries - 1

InitialRaw(v) == IF v = "Agendator" THEN Bound(<< >>) ELSE Unbound

Finish(r) ==
    /\ ret' = r
    /\ pc' = IF r.st = "raise" THEN "crashed" ELSE "returned"
    /\ UNCHANGED attempt

Post == [op |-> "post", arg |-> 0]
Sleep(d) == [op |-> "sleep", arg |-> d]

\* one pass through the try block: the request, the reading of the
\* envelope, the cleaning and the parse, and the except clause that applies
Attempt(o) ==
    /\ pc = "post"
    /\ response' = o
    /\ UNCHANGED <<variant, credentials, slept, fetches, handed, prompt, today,
                   import_date, attempted, mailbox, seen, emails, events, idx, calls,
                   warnings>>
    /\ CASE o.kind \in {"transport", "http"} ->
              IF variant = "AgendatorActions" /\ RetryAfter(attempt)
              THEN /\ trace' = trace \o <<Post, Sleep(RETRY_DELAY)>>
                   /\ IF attempt + 1 < max_retries
                      THEN attempt' = attempt + 1 /\ UNCHANGED <<pc, ret>>
                      ELSE Finish(Return(EmptyList))
                   /\ UNCHANGED <<raw_response, parses>>
              ELSE /\ trace' = Append(trace, Post)
                   /\ Finish(Return(EmptyList))
                   /\ UNCHANGED <<raw_response, parses>>
         [] o.kind \in {"nokey", "noitem"} ->
              /\ trace' = Append(trace, Post)
              /\ Finish(EnvelopeErrorHandler(raw_response))
              /\ UNCHANGED <<raw_response, parses>>
         [] o.kind = "nulls" ->
              /\ trace' = Append(trace, Post)
              /\ Finish(Raise("TypeError"))
              /\ UNCHANGED <<raw_response, parses>>
         [] o.kind = "textnull" ->
              /\ trace' = Append(trace, Post)
              /\ raw_response' = BoundNone
              /\ Finish(Raise("AttributeError"))
              /\ UNCHANGED parses
         [] OTHER ->
              LET r == ParseResponse(variant, o.text)
              IN /\ trace' = Append(trace, Post)
                 /\ raw_response' = Bound(o.text)
                 /\ parses' = parses + (IF r.parsed THEN 1 ELSE 0)
                 /\ Finish(r.ret)

get_events_from_email(outcomes) == \E o \in outcomes : Attempt(o)

\* --------------------------------------------------- create_calendar_event
Range(q) == {q[i] : i \in 1..Len(q)}
HasKey(v, key) == v.t = "obj" /\ key \in DOMAIN v.f

TIME_ZONE == "America/Sao_Paulo"

\* the payload, were the summary a fixed default rather than the candidate's
EventBodyDefaultSummary(summary, start, end) ==
    [summary |-> Str(<<"Evento">>), location |-> "Remoto", description |-> summary,
     start |-> [dateTime |-> start, timeZone |-> TIME_ZONE],
     end |-> [dateTime |-> end, timeZone |-> TIME_ZONE]]
EventBody(summary, start, end) ==
    [summary |-> summary, location |-> "Remoto", description |-> summary,
     start |-> [dateTime |-> start, timeZone |-> TIME_ZONE],
     end |-> [dateTime |-> end, timeZone |-> TIME_ZONE]]

CalendarEnv == {"ok", "creds", "api"}

Failed(event_info) ==
    [event |-> event_info, submitted |-> FALSE, result |-> FALSE, payload |-> Null]
Inserted(event_info, body, env) ==
    [event |-> event_info, submitted |-> TRUE, result |-> (env = "ok"), payload |-> body]

\* AgendatorActions.py: the end is the parsed start plus one hour, formatted back
EndTimeStr(start_time_str) == Str(isoformat(PlusHours(fromisoformat(start_time_str.s), 1)))

create_calendar_event(v, event_info, env) ==
    IF ~HasKey(event_info, "summary") \/ env = "creds" \/ ~HasKey(event_info, "start_datetime")
    THEN Failed(event_info)
    ELSE LET start == event_info.f.start_datetime
         IN IF v = "AgendatorActions"
            THEN IF start.t = "str" /\ IsIsoFormat(start.s)
                 THEN Inserted(event_info,
                               EventBody(event_info.f.summary, start, EndTimeStr(start)), env)
                 ELSE Failed(event_info)
            ELSE Inserted(event_info, EventBody(event_info.f.summary, start, start), env)

\* ------------------------------------------------------------ fetch_emails
RECURSIVE SortedSeq(_)
SortedSeq(S) ==
    IF S = {} THEN << >>
    ELSE LET m == CHOOSE x \in S : \A y \in S : x <= y
         IN <<m>> \o SortedSeq(S \ {m})

RECURSIVE SetToSeq(_)
SetToSeq(S) ==
    IF S = {} THEN << >>
    ELSE LET m == CHOOSE x \in S : TRUE IN <<m>> \o SetToSeq(S \ {m})

Messages == 1..MaxEmails

\* a message arrives; between two fetches the program does not look at the mailbox
NewMail(m) ==
    /\ pc = "fetch"
    /\ m \in Messages \ (mailbox \cup seen)
    /\ mailbox' = mailbox \cup {m}
    /\ UNCHANGED <<variant, credentials, slept, fetches, handed, prompt, today,
                   import_date, attempted, pc, seen, emails, attempt, trace, response,
                   raw_response, parses, ret, events, idx, calls, warnings>>

\* the messages stored as seen when the loop over email_ids is left: all of
\* those with status OK when nothing raises or logout raises (failAt = 0 or
\* n + 1), those before the message whose handling raises otherwise
StoredNothing(ids, notOk, failAt) == {}

Stored(ids, notOk, failAt) ==
    {ids[i] : i \in {j \in 1..Len(ids) : (failAt = 0 \/ j < failAt) /\ ids[j] \notin notOk}}

FetchResult(ids, notOk, failAt) ==
    IF failAt = 0 THEN SelectSeq(ids, LAMBDA m : m \notin notOk) ELSE << >>

\* AgendatorActions.py returns before the try block when EMAIL_USER or
\* EMAIL_PASS is not set; Agendator.py has no such test
ChecksCredentials(v) == v = "AgendatorActions"

\* whether fetch_emails gets to imaplib.IMAP4_SSL and mail.login
Connects(v, cred) == cred \/ ~ChecksCredentials(v)

\* connected = FALSE: the credentials check of AgendatorActions.py returns,
\* or connect, login (as it does without credentials), select or search raises
\* signal = TRUE: what is raised at failAt is KeyboardInterrupt, which the
\* except clause of fetch_emails does not catch and the one around
\* main_loop does.  (Raised while a body is decoded, the bare except clauses
\* swallow it: the body is left empty and nothing else changes.)
fetch_emails(connected, notOk, failAt, signal) ==
    /\ pc = "fetch"
    /\ ~credentials => ~connected
    /\ signal => (variant = "Agendator" /\ failAt > 0)
    /\ LET ids == IF connected THEN SortedSeq(mailbox) ELSE << >>
       IN /\ failAt \in 0..(Len(ids) + 1)
          /\ notOk \subseteq Range(ids)
          /\ (ids = << >>) => failAt = 0
          /\ mailbox' = mailbox \ Stored(ids, notOk, failAt)
          /\ seen' = seen \cup Stored(ids, notOk, failAt)
          /\ emails' = FetchResult(ids, notOk, failAt)
    /\ attempted' = Connects(variant, credentials)
    /\ fetches' = fetches + 1
    /\ slept' = 0
    /\ pc' = IF signal THEN "stopped" ELSE "email"
    /\ UNCHANGED <<variant, credentials, handed, prompt, today, import_date, attempt,
                   trace, response, raw_response, parses, ret, events, idx, calls,
                   warnings>>

\* ------------------------------------------------------- main and main_loop
\* what becomes of a message's record when get_events_from_email is called
\* on it, and when a cycle of main_loop ends
HandOver(h) == IF h = "no" THEN "now" ELSE "twice"
EndOfCycle(h) == IF h = "now" THEN "before" ELSE h

\* the for loop over emails: the next email enters get_events_from_email, or
\* the cycle is over
ClearEmailState ==
    /\ attempt' = 0
    /\ trace' = << >>
    /\ response' = NoResponse
    /\ raw_response' = Unbound
    /\ parses' = 0
    /\ ret' = NotReturned
    /\ events' = << >>
    /\ idx' = 1
    /\ calls' = << >>
    /\ warnings' = << >>
    /\ prompt' = << >>

NextEmail ==
    /\ pc = "email"
    /\ IF emails = << >>
       THEN /\ pc' = IF variant = "Agendator" THEN "wait" ELSE "done"
            /\ UNCHANGED <<raw_response, prompt, handed>>
       ELSE /\ pc' = "post"
            /\ prompt' = BuildPrompt(import_date, EmailData(emails[1]))
            /\ raw_response' = InitialRaw(variant)
            /\ handed' = [handed EXCEPT ![emails[1]] = HandOver(@)]
    /\ UNCHANGED <<variant, credentials, slept, fetches, today, import_date, attempted,
                   mailbox, seen, emails, attempt, trace, response, parses, ret, events,
                   idx, calls, warnings>>

\* Python truth value, iteration and the operator in
Truthy(v) ==
    CASE v.t = "null" -> FALSE
      [] v.t = "num" -> v.n # 0
      [] v.t = "str" -> v.s # << >>
      [] v.t = "list" -> v.items # << >>
      [] OTHER -> DOMAIN v.f # {}
Iterable(v) == v.t \in {"str", "list", "obj"}
Elements(v) ==
    CASE v.t = "list" -> v.items
      [] v.t = "str" -> [i \in 1..Len(v.s) |-> Str(<<v.s[i]>>)]
      [] OTHER -> LET keys == SetToSeq(DOMAIN v.f)
                  IN [i \in 1..Len(keys) |-> Str(<<keys[i]>>)]
SupportsIn(v) == v.t \in {"str", "list", "obj"}
In(key, v) ==
    CASE v.t = "obj" -> key \in DOMAIN v.f
      [] v.t = "str" -> key \in Range(v.s)
      [] OTHER -> \E i \in 1..Len(v.items) :
                     v.items[i].t = "str" /\ v.items[i].s = <<key>>

\* 'start_datetime' in event and 'summary' in event
IsWellFormed(event) == In("start_datetime", event) /\ In("summary", event)

\* if events: for event in events
IterateEvents ==
    /\ pc = "returned"
    /\ IF ~Truthy(ret.v)
       THEN /\ pc' = "email"
            /\ emails' = Tail(emails)
            /\ ClearEmailState
       ELSE /\ IF ~Iterable(ret.v)
               THEN pc' = "crashed" /\ UNCHANGED events
               ELSE pc' = "events" /\ events' = Elements(ret.v)
            /\ UNCHANGED <<emails, attempt, trace, response, raw_response, parses,
                           ret, idx, calls, warnings, prompt>>
    /\ UNCHANGED <<variant, credentials, slept, fetches, handed, today, import_date,
                   attempted, mailbox, seen>>

\* the body of the for loop over events, were a call of
\* create_calendar_event that comes to False to end the loop
ProcessEventStopsOnFailure(env) ==
    /\ pc = "events"
    /\ idx <= Len(events)
    /\ LET event == events[idx]
       IN IF ~SupportsIn(event)
          THEN /\ pc' = "crashed"
               /\ UNCHANGED <<idx, calls, warnings>>
          ELSE /\ IF IsWellFormed(event)
                  THEN /\ calls' = Append(calls, create_calendar_event(variant, event, env))
                       /\ idx' = IF create_calendar_event(variant, event, env).result
                                 THEN idx + 1 ELSE Len(events) + 1
                       /\ UNCHANGED warnings
                  ELSE /\ warnings' = Append(warnings, event)
                       /\ idx' = idx + 1
                       /\ UNCHANGED calls
               /\ UNCHANGED pc
    /\ UNCHANGED <<variant, credentials, slept, fetches, handed, prompt, today,
                   import_date, attempted, mailbox, seen, emails, attempt, trace,
                   response, raw_response, parses, ret, events>>

\* the body of the for loop over events, for the element at idx
ProcessEvent(env) ==
    /\ pc = "events"
    /\ idx <= Len(events)
    /\ LET event == events[idx]
       IN IF ~SupportsIn(event)
          THEN /\ pc' = "crashed"
               /\ UNCHANGED <<idx, calls, warnings>>
          ELSE /\ IF IsWellFormed(event)
                  THEN /\ calls' = Append(calls, create_calendar_event(variant, event, env))
                       /\ UNCHANGED warnings
                  ELSE /\ warnings' = Append(warnings, event)
                       /\ UNCHANGED calls
               /\ idx' = idx + 1
               /\ UNCHANGED pc
    /\ UNCHANGED <<variant, credentials, slept, fetches, handed, prompt, today,
                   import_date, attempted, mailbox, seen, emails, attempt, trace,
                   response, raw_response, parses, ret, events>>

\* the for loop over events is exhausted: on to the next email
EndEvents ==
    /\ pc = "events"
    /\ idx > Len(events)
    /\ pc' = "email"
    /\ emails' = Tail(emails)
    /\ ClearEmailState
    /\ UNCHANGED <<variant, credentials, slept, fetches, handed, today, import_date,
                   attempted, mailbox, seen>>

\* the next cycle, were main_loop not to sleep
WaitWithoutSleep ==
    /\ pc = "wait"
    /\ pc' = "fetch"
    /\ fetches' = 0
    /\ today' \in today..MaxDay
    /\ handed' = [m \in Messages |-> EndOfCycle(handed[m])]
    /\ UNCHANGED <<variant, credentials, slept, prompt, import_date, attempted, mailbox,
                   seen, emails, attempt, trace, response, raw_response, parses, ret,
                   events, idx, calls, warnings>>

\* time.sleep(60) of main_loop, then the next cycle; midnight may pass
\* while the process sleeps
Wait ==
    /\ pc = "wait"
    /\ pc' = "fetch"
    /\ slept' = slept + POLL_DELAY
    /\ fetches' = 0
    /\ today' \in today..MaxDay
    /\ handed' = [m \in Messages |-> EndOfCycle(handed[m])]
    /\ UNCHANGED <<variant, credentials, prompt, import_date, attempted, mailbox, seen,
                   emails, attempt, trace, response, raw_response, parses, ret, events,
                   idx, calls, warnings>>

\* KeyboardInterrupt, delivered between two steps of main_loop: the except
\* clause around main_loop logs the shutdown line and the process ends
Interrupt ==
    /\ variant = "Agendator"
    /\ pc \in {"fetch", "email", "post", "returned", "events", "wait"}
    /\ pc' = "stopped"
    /\ UNCHANGED <<credentials, prompt, today, import_date, attempted, mailbox, seen,
                   emails, attempt, trace, response, raw_response, parses, ret, events,
                   idx, calls, warnings, variant, handed, fetches, slept>>

Init ==
    /\ variant \in Variants
    /\ credentials \in BOOLEAN
    /\ attempted = FALSE
    /\ import_date = 1
    /\ today = import_date
    /\ prompt = << >>
    /\ handed = [m \in Messages |-> "no"]
    /\ fetches = 0
    /\ slept = 0
    /\ pc = "fetch"
    /\ mailbox \in SUBSET Messages
    /\ seen = {}
    /\ emails = << >>
    /\ attempt = 0
    /\ trace = << >>
    /\ response = NoResponse
    /\ raw_response = Unbound
    /\ parses = 0
    /\ ret = NotReturned
    /\ events = << >>
    /\ idx = 1
    /\ calls = << >>
    /\ warnings = << >>

Next ==
    \/ \E m \in Messages : NewMail(m)
    \/ \E connected \in BOOLEAN, notOk \in SUBSET Messages, failAt \in 0..(MaxEmails + 1) :
          \E signal \in BOOLEAN : fetch_emails(connected, notOk, failAt, signal)
    \/ NextEmail
    \/ get_events_from_email(PipelineOutcomes)
    \/ IterateEvents
    \/ \E env \in CalendarEnv : ProcessEvent(env)
    \/ EndEvents
    \/ Wait
    \/ Interrupt

\* the whole pipeline, on short response texts
Spec == Init /\ [][Next]_vars

\* get_events_from_email alone, called by the orchestrator for one fetched
\* email, on response texts of up to MaxTextLen tokens
InitExtract ==
    /\ variant \in Variants
    /\ credentials = TRUE
    /\ attempted = TRUE
    /\ import_date = 1
    /\ today = import_date
    /\ prompt = BuildPrompt(import_date, EmailData(1))
    /\ handed = [m \in Messages |-> IF m = 1 THEN "now" ELSE "no"]
    /\ fetches = 1
    /\ slept = 0
    /\ pc = "post"
    /\ mailbox = {}
    /\ seen = {1}
    /\ emails = <<1>>
    /\ attempt = 0
    /\ trace = << >>
    /\ response = NoResponse
    /\ raw_response = InitialRaw(variant)
    /\ parses = 0
    /\ ret = NotReturned
    /\ events = << >>
    /\ idx = 1
    /\ calls = << >>
    /\ warnings = << >>

NextExtract == get_events_from_email(ExtractOutcomes)

SpecExtract == InitExtract /\ [][NextExtract]_vars

\* ================================================================ claims
Posts == Cardinality({i \in 1..Len(trace) : trace[i].op = "post"})
Cleaned == clean_json_str(variant, response.text)

\* C1: get_events_from_email lets no exception escape and what it returns is
\* a sequence, whatever the inference call comes to.
C1_ReturnsSequenceNeverRaises ==
    /\ ret.st # "raise"
    /\ ret.st = "ret" => ret.v.t = "list"

\* C2: when the envelope lacks the expected nested fields (KeyError or
\* IndexError on candidates[0].content.parts[0].text), the function returns
\* the empty list on that attempt and sends no further request.
C2_MissingFieldsReturnEmpty ==
    response.kind \in {"nokey", "noitem"} =>
        /\ ret = Return(EmptyList)
        /\ pc = "returned"
        /\ Posts = attempt + 1

\* the response text is a JSON object with a list under "eventos", with
\* nothing around it but whitespace
IsPlainEventos(text) ==
    /\ JsonValid(text)
    /\ HasKey(json_loads(text), "eventos")
    /\ json_loads(text).f.eventos.t = "list"

\* C3: after a transport failure or an HTTP error status on the first
\* attempt the function sends a second request, and when that one succeeds
\* it returns the candidates of the second response.
C3_SecondAttemptDecides ==
    /\ (Posts = 1 /\ response.kind \in {"transport", "http"}) =>
            (pc = "post" /\ ret.st = "none")
    /\ (Posts = 2 /\ response.kind = "ok" /\ IsPlainEventos(response.text)) =>
            ret = Return(json_loads(response.text).f.eventos)

\* C4: AgendatorActions.py sends at most max_retries requests for one email;
\* every request but the first is preceded by exactly one sleep of 5 units,
\* every sleep follows a request that failed and is not the last (so it
\* never sleeps after the last attempt), and when the last attempt too fails
\* with a transport or HTTP error the empty list is returned.
C4_BoundedRetriesFixedDelay ==
    variant = "AgendatorActions" =>
        /\ Posts <= max_retries
        /\ \A i \in 1..Len(trace) :
              IF trace[i].op = "sleep"
              THEN /\ trace[i].arg = RETRY_DELAY
                   /\ i > 1 /\ trace[i - 1].op = "post"
                   /\ i = Len(trace) => (pc = "post" /\ ret.st = "none"
                                         /\ response.kind \in {"transport", "http"})
              ELSE i > 1 => trace[i - 1].op = "sleep"
        /\ (ret.st # "none" /\ response.kind \in {"transport", "http"}) =>
              (ret = Return(EmptyList) /\ Posts = max_retries /\ pc = "returned")

C4_Witness ==
    /\ variant = "AgendatorActions"
    /\ trace = <<Post, Sleep(5), Post>>
    /\ response.kind = "http"
    /\ ret = Return(EmptyList)

\* C5: when the text the model sent is not valid JSON once cleaned, the
\* function returns the empty list and sends no further request: the
\* requests made are those up to and including the attempt that got the text.
C5_InvalidJsonIsTerminal ==
    (response.kind = "ok" /\ ~JsonValid(Cleaned)) =>
        /\ ret = Return(EmptyList)
        /\ pc = "returned"
        /\ Posts = attempt + 1

C5_Witness ==
    /\ response.kind = "ok"
    /\ Cleaned # << >>
    /\ ~JsonValid(Cleaned)
    /\ Doc(Obj(<< >>)) \in Range(response.text)
    /\ attempt = 1
    /\ parses = 1
    /\ ret = Return(EmptyList)

\* C6: after a successful parse the function returns the value under
\* "eventos" only when the key is there and the value is a list, and the
\* empty list in every other case.
C6_EventosOnlyWhenList ==
    (response.kind = "ok" /\ JsonValid(Cleaned) /\ json_loads(Cleaned).t = "obj") =>
        ret = Return(IF IsPlainEventos(Cleaned)
                     THEN json_loads(Cleaned).f.eventos ELSE EmptyList)

\* what is left of a text once surrounding whitespace, one leading json
\* fence marker and one trailing fence marker are removed
StrippedOfFences(text) ==
    LET a == strip(text)
        b == IF StartsWithFenceJson(a) THEN strip(SubSeq(a, 3, Len(a))) ELSE a
    IN IF EndsWithFence(b) THEN strip(SubSeq(b, 1, Len(b) - 1)) ELSE b

\* C7: for a text that is empty once the markers and the whitespace are
\* removed, the function returns the empty list and json.loads is not called.
C7_EmptyAfterStrippingNoParse ==
    (response.kind = "ok" /\ StrippedOfFences(response.text) = << >>) =>
        (ret = Return(EmptyList) /\ parses = 0)

\* C8: for a JSON object J with a list under "eventos", wrapped in an
\* optional leading marker, an optional trailing marker and any whitespace,
\* the function returns the list of J with its exact field values.
C8_FenceStrippingTransparent ==
    (response.kind = "ok" /\ IsPlainEventos(StrippedOfFences(response.text))) =>
        ret = Return(json_loads(StrippedOfFences(response.text)).f.eventos)

\* the candidates the for loop has gone through
Processed == SubSeq(events, 1, idx - 1)

\* both keys are there with non-null values
IsAcceptable(c) ==
    /\ HasKey(c, "start_datetime") /\ c.f.start_datetime.t # "null"
    /\ HasKey(c, "summary") /\ c.f.summary.t # "null"

\* C9: create_calendar_event is called on a candidate if and only if it has
\* both keys with non-null values; every other candidate gets one
\* malformed-event warning and no call.
C9_CalledIffBothKeysNonNull ==
    pc = "events" =>
        /\ [i \in 1..Len(calls) |-> calls[i].event] = SelectSeq(Processed, IsAcceptable)
        /\ warnings = SelectSeq(Processed, LAMBDA c : ~IsAcceptable(c))

ParsesAsInstant(v) == v.t = "str" /\ IsIsoFormat(v.s)

\* hours on the UTC time line of a parsed instant
Instant(dt) == dt.day * 24 + dt.hour - dt.off

\* C10: for every candidate whose start_datetime parses, the payload
\* submitted has an end one hour after its start, with the same UTC offset.
C10_EndOneHourAfterStart ==
    \A i \in 1..Len(calls) :
        (calls[i].submitted /\ ParsesAsInstant(calls[i].payload.start.dateTime)) =>
            /\ ParsesAsInstant(calls[i].payload.end.dateTime)
            /\ LET start == fromisoformat(calls[i].payload.start.dateTime.s)
                   end == fromisoformat(calls[i].payload.end.dateTime.s)
               IN /\ Instant(end) = Instant(start) + 1
                  /\ end.aware = start.aware
                  /\ end.off = start.off

\* a candidate the orchestrator hands to create_calendar_event
PassesValidation(c) == SupportsIn(c) /\ IsWellFormed(c)

\* C11: a call of create_calendar_event that fails (credentials, unparsable
\* start_datetime, service error) comes to False and raises nothing: the
\* candidates gone through so far that pass validation have each had their
\* call, whatever the results of the calls before them, the loop is left
\* early only at an element that is not a container, and at the end of the
\* batch the orchestrator goes on to the emails that remain.
C11_FailedCallStopsNothing ==
    /\ [](/\ pc = "events" =>
               [i \in 1..Len(calls) |-> calls[i].event]
                   = SelectSeq(Processed, PassesValidation)
          /\ (pc = "crashed" /\ events # << >>) => ~SupportsIn(events[idx])
          /\ \A i \in 1..Len(calls) : calls[i].result \in BOOLEAN)
    /\ [][(pc = "events" /\ idx > Len(events) /\ pc' # "stopped") =>
              (pc' = "email" /\ emails' = Tail(emails))]_vars

C11_Witness ==
    /\ variant = "AgendatorActions"
    /\ pc = "events"
    /\ events = <<candBadTime, candFence, candNaive>>
    /\ idx = 4
    /\ Len(calls) = 3
    /\ ~calls[1].result /\ ~calls[1].submitted
    /\ ~calls[2].result /\ calls[2].submitted
    /\ calls[3].result

\* C12: whatever get_events_from_email returns for an email, the process
\* goes through every element of it and on to the later emails and, in the
\* loop variant, to the next cycle: it does not end on an exception.
C12_EveryReturnIsProcessed ==
    ret.st = "ret" => pc # "crashed"

\* C13: without EMAIL_USER or EMAIL_PASS, fetch_emails returns no message
\* and opens no connection to the mailbox server, in either variant.
C13_NoCredentialsNoConnection ==
    ~credentials => (~attempted /\ emails = << >>)

\* the prompt up to and including the sentence that gives the date
Preamble(date) ==
    << "Abaixo esta o conteudo de um e-mail ... lista vazia: ",
       "{", "\"eventos\": []", "}", ". ",
       "Considere a data de hoje como: ", date, ". Segue o e-mail:" >>

\* C14: the date the prompt of an email gives as today is the date of the
\* day on which the cycle that processes the email runs, in every cycle.
C14_AnchorIsDayOfCycle ==
    pc \in {"post", "returned", "events"} =>
        SubSeq(prompt, 1, Len(Preamble(DateStr[today]))) = Preamble(DateStr[today])

\* C15: in the loop variant an interruption ends the process only between
\* two cycles: when the process has stopped, no fetched email is left
\* unprocessed and no candidate of the current email is left unvisited.
C15_StopsOnlyBetweenCycles ==
    pc = "stopped" => (emails = << >> /\ idx > Len(events))

\* C16: for every email the calls of create_calendar_event are at most as
\* many as the candidates returned; every candidate gone through has had
\* exactly one of a call and a malformed-event warning, in the order of the
\* candidates; what is submitted carries the summary and the start_datetime
\* of its candidate unchanged; and a candidate that lacks a field is never
\* submitted.
C16_SubmissionsAreTheCandidates ==
    /\ Len(calls) <= Len(events)
    /\ Len(calls) + Len(warnings) = idx - 1
    /\ [i \in 1..Len(calls) |-> calls[i].event]
           = SelectSeq(Processed, LAMBDA c : c \notin Range(warnings))
    /\ \A i \in 1..Len(warnings) :
           ~(HasKey(warnings[i], "start_datetime") /\ HasKey(warnings[i], "summary"))
    /\ \A i \in 1..Len(calls) :
           calls[i].submitted =>
               /\ HasKey(calls[i].event, "start_datetime")
               /\ HasKey(calls[i].event, "summary")
               /\ calls[i].payload.summary = calls[i].event.f.summary
               /\ calls[i].payload.start.dateTime = calls[i].event.f.start_datetime

C16_Witness ==
    /\ pc = "events"
    /\ events = <<candX, candNoSummary, candY>>
    /\ idx = 4
    /\ warnings = <<candX, candNoSummary>>
    /\ Len(calls) = 1
    /\ calls[1].submitted
    /\ calls[1].payload.summary = Str(<<"Y">>)
    /\ calls[1].payload.start.dateTime = Str(DT1)

\* the four fields of a normalized email are strings
IsNormalized(e) == \A k \in {"from", "to", "subject", "body"} : e[k].t = "str"

\* C17: the prompt built for a normalized email is the instructions with
\* the JSON example in single braces and a date, followed by the four
\* labels, each followed by the text of its field exactly as it is in the
\* email, braces included, and by nothing else: no replacement field of the
\* template is left and none is made of what the email brought.
C17_PromptEmbedsEmailVerbatim ==
    (pc \in {"post", "returned", "events"} /\ IsNormalized(EmailData(emails[1]))) =>
        \E d \in 1..Len(DateStr) :
            prompt = Preamble(DateStr[d])
                        \o <<"De: ">> \o EmailData(emails[1]).from.s
                        \o <<"Para: ">> \o EmailData(emails[1]).to.s
                        \o <<"Assunto: ">> \o EmailData(emails[1]).subject.s
                        \o <<"Conteudo:">> \o EmailData(emails[1]).body.s

C17_Witness ==
    /\ pc = "post"
    /\ emails[1] = 1
    /\ SubSeq(prompt, 2, 4) = <<"{", "\"eventos\": []", "}">>
    /\ SubSeq(prompt, Len(prompt) - 6, Len(prompt))
          = <<"{", "conteudo", "}", " amanha ", "{", "{", "}">>

\* C18: fetch_emails drops no message it has flagged seen: every message
\* that is unseen when fetch_emails starts is, when it ends, in the list it
\* returns or still unseen, also when fetch, header decoding, store or
\* logout raises partway through the messages.
C18_SeenOrStillUnseen ==
    [][(pc = "fetch" /\ pc' = "email") =>
          \A m \in mailbox : m \in Range(emails') \/ m \in mailbox']_vars

\* C19: a message is handed to get_events_from_email in at most one cycle:
\* it is flagged seen before fetch_emails returns it, so whatever comes of
\* its extraction and of its calendar calls, no later fetch returns it.
C19_HandedOverInOneCycleOnly ==
    \A m \in Messages :
        /\ handed[m] # "twice"
        /\ handed[m] # "no" => (m \in seen /\ m \notin mailbox)
        /\ m \in Range(emails) => (m \in seen /\ handed[m] # "before")

C19_Witness ==
    /\ variant = "Agendator"
    /\ handed[1] = "before"
    /\ handed[2] = "now"
    /\ pc = "returned"
    /\ emails = <<2>>
    /\ mailbox = {}

\* C20: processing is strictly sequential.  A cycle calls fetch_emails once,
\* and an email is under extraction or validation only once that call has
\* returned it flagged seen; a request to the inference service is sent
\* only while no candidate of an earlier email is pending, a call of
\* create_calendar_event is made only for the next candidate of the current
\* email, in the order of the candidates; and in the loop variant the only
\* way from the end of a cycle to the next fetch is one sleep of 60 units.
C20_StrictlySequential ==
    /\ [](/\ fetches <= 1
          /\ slept \in {0, POLL_DELAY}
          /\ pc \in {"post", "returned", "events"} =>
                 (fetches = 1 /\ emails # << >> /\ Range(emails) \subseteq seen)
          /\ pc = "post" => (calls = << >> /\ events = << >> /\ idx = 1))
    /\ [][/\ Len(trace') > Len(trace) => (pc = "post" /\ emails' = emails)
          /\ (calls' # calls /\ calls' # << >>) =>
                 /\ pc = "events" /\ emails' = emails /\ idx' = idx + 1
                 /\ calls' = Append(calls, calls'[Len(calls')])
                 /\ calls'[Len(calls')].event = events[idx]
          /\ fetches' # fetches =>
                 \/ pc = "fetch" /\ fetches = 0 /\ fetches' = 1
                 \/ pc = "wait" /\ fetches' = 0
          /\ (pc' = "fetch" /\ pc # "fetch") =>
                 (variant = "Agendator" /\ pc = "wait" /\ slept = 0
                  /\ slept' = POLL_DELAY)
          /\ (pc = "email" /\ emails = << >> /\ pc' # pc) =>
                 pc' = IF variant = "AgendatorActions" THEN "done"
                       ELSE IF pc' = "stopped" THEN "stopped" ELSE "wait"]_vars

C20_Witness ==
    /\ variant = "Agendator"
    /\ pc = "email"
    /\ emails = <<2>>
    /\ fetches = 1
    /\ slept = 0
    /\ handed[1] = "before"
    /\ handed[2] = "no"
    /\ today = 2

====
